---- MODULE Spec2Model ----
(***************************************************************************)
(* Model of the algolia-rs client: the multi-host request dispatcher       *)
(* (Client::retry_with), the response classifier (check_response), the     *)
(* per-attempt closures of the public operations, and host / route         *)
(* rendering.                                                              *)
(***************************************************************************)
EXTENDS Integers, Sequences, FiniteSets, TLC

VARIABLES
    application_id,  \* Client.application_id
    pc,              \* position of the dispatch: "idle", "loop", "await", "done"
    op,              \* the public operation being dispatched
    index,           \* its `index` argument
    route,           \* the rendered route handed to retry_with
    query,           \* the PartialUpdateQuery argument, where the operation takes one
    sent_query,      \* the query string of each request sent, in order
    fallback_order,  \* retry_with's shuffled copy of HOST_FALLBACK_LIST
    pos,             \* 1-based position in once(0).chain(fallback_order)
    attempted,       \* the urls f has been invoked with, in order
    outcomes,        \* the value each completed invocation of f returned
    resp,            \* the transport outcome of the latest completed attempt
    checked,         \* what check_response made of it
    in_flight,       \* number of requests sent and not yet answered
    result,          \* what retry_with returned
    calls,           \* the dispatches of several callers sharing one client
    host_args,       \* the constructor of Host last called, with its arguments
    the_host,        \* the Host it built
    hostname,        \* what Display rendered for it
    and_filter,      \* the AndFilter being built
    or_filter,       \* the OrFilter<T> being built, if any
    rendered,        \* the text of the filter last rendered, if any
    parent_key,      \* the ApiKey virtual keys are generated from
    derivations      \* the calls of generate_virtual_key made so far

\* The state of the single dispatch followed in detail.
dispatch_vars == <<pc, op, index, route, query, sent_query, fallback_order, pos,
                   attempted, outcomes, resp, checked, in_flight, result>>

\* Everything that is not the client or the single dispatch.
host_vars == <<host_args, the_host, hostname>>

filter_vars == <<and_filter, or_filter, rendered>>

key_vars == <<parent_key, derivations>>

outside_dispatch == <<calls, host_vars, filter_vars, key_vars>>

\* Everything but the dispatches of the callers sharing one client.
outside_calls == <<dispatch_vars, host_vars, filter_vars, key_vars>>

\* Everything but the Host being built.
outside_host == <<dispatch_vars, calls, filter_vars, key_vars>>

\* Everything but the filters being built.
outside_filter == <<dispatch_vars, calls, host_vars, key_vars>>

\* Everything but the key derivations.
outside_key == <<dispatch_vars, calls, host_vars, filter_vars>>

vars == <<application_id, dispatch_vars, outside_dispatch>>

----------------------------------------------------------------------------
(* Input domains *)

NumIndexes == 2

AppIds == {"APPA", "APPB"}

IndexNames == {"idx" \o ToString(i) : i \in 1..NumIndexes}

ObjectIds == {"obj"}

TaskIds == {7}

Ops == {"batch", "set_settings", "task_status", "search",
        "add_or_update_object", "partially_update_object", "delete_object"}

\* Status codes a host may answer with: informational, success, redirection,
\* client error (400, 404 and another), server error.
Statuses == {101, 200, 201, 304, 400, 403, 404, 500, 503}

\* Response bodies, by what they deserialize into.
Bodies == {"expected_a", "expected_b", "message", "message_status", "garbage"}

\* reqwest::Result<reqwest::Response>
TransportOutcomes ==
    [tag : {"Err"}, timeout : BOOLEAN]
        \cup [tag : {"Ok"}, status : Statuses, body : Bodies]

----------------------------------------------------------------------------
(* Result / Option / Error values *)

OkNone == [tag |-> "Ok", opt |-> "None"]

OkSome(x) == [tag |-> "Ok", opt |-> "Some", val |-> x]

Err(e) == [tag |-> "Err", err |-> e]

Timeout == [kind |-> "Timeout"]

IndexNotFound(name) == [kind |-> "IndexNotFound", index |-> name]

DecodeError(src) == [kind |-> "DecodeError", source |-> src]

RequestError(src) == [kind |-> "RequestError", source |-> src]

NoIndex == [some |-> FALSE]

SomeIndex(name) == [some |-> TRUE, name |-> name]

----------------------------------------------------------------------------
(* lib.rs *)

HOST_FALLBACK_LIST == <<1, 2, 3>>

----------------------------------------------------------------------------
(* host.rs *)

\* Variant: zero is accepted as a NonZeroUsize.
NonZeroUsizeNew_KeepsZero(n) == [some |-> TRUE, val |-> n]

\* NonZeroUsize::new
NonZeroUsizeNew(n) == IF n = 0 THEN [some |-> FALSE] ELSE [some |-> TRUE, val |-> n]

\* Variant: the zero slot is kept as a backup number.
HostWithBackup_KeepsZero(app_id, backup_number) ==
    [app_id |-> app_id,
     dsn |-> FALSE,
     backup_number |-> backup_number]

\* Host::new
HostNew(app_id) ==
    [app_id |-> app_id, dsn |-> FALSE, backup_number |-> [some |-> FALSE]]

\* Host::with_dsn
HostWithDsn(app_id, dsn) ==
    [app_id |-> app_id, dsn |-> dsn, backup_number |-> [some |-> FALSE]]

\* Host::with_backup: backup_number.and_then(NonZeroUsize::new)
HostWithBackup(app_id, backup_number) ==
    [app_id |-> app_id,
     dsn |-> FALSE,
     backup_number |-> IF backup_number.some
                       THEN NonZeroUsizeNew(backup_number.val)
                       ELSE [some |-> FALSE]]

\* impl Display for Host
HostDisplay(host) ==
    host.app_id
        \o (IF host.dsn THEN "-dsn" ELSE "")
        \o (IF host.backup_number.some
            THEN "-" \o ToString(host.backup_number.val)
            ELSE "")
        \o ".algolia.net"

----------------------------------------------------------------------------
(* client.rs: routes *)

\* impl Display for IndexRouteKind
IndexRouteKindDisplay(kind) ==
    CASE kind = "Query" -> "query"
      [] kind = "Settings" -> "settings"
      [] kind = "Batch" -> "batch"

\* impl Display for IndexRoute (kind is always Some in the callers)
IndexRouteDisplay(index_name, kind) ==
    "indexes/" \o index_name \o "/" \o IndexRouteKindDisplay(kind)

\* impl Display for ObjectRoute
ObjectRouteDisplay(index_name, object_id, partial) ==
    "indexes/" \o index_name \o "/" \o object_id
        \o (IF partial THEN "/partial" ELSE "")

\* impl Display for TaskRoute
TaskRouteDisplay(index_name, task_id) ==
    "indexes/" \o index_name \o "/task/" \o ToString(task_id)

\* The route each public operation hands to retry_with.
RouteOf(o, i, object_id, task_id) ==
    CASE o = "batch" -> IndexRouteDisplay(i, "Batch")
      [] o = "set_settings" -> IndexRouteDisplay(i, "Settings")
      [] o = "task_status" -> TaskRouteDisplay(i, task_id)
      [] o = "search" -> IndexRouteDisplay(i, "Query")
      [] o = "add_or_update_object" -> ObjectRouteDisplay(i, object_id, FALSE)
      [] o = "partially_update_object" -> ObjectRouteDisplay(i, object_id, TRUE)
      [] o = "delete_object" -> ObjectRouteDisplay(i, object_id, FALSE)

\* An operation that takes no query argument.
NoQuery == [tag |-> "None"]

\* PartialUpdateQuery values
PartialUpdateQueries == [create_if_not_exists : BOOLEAN]

\* impl Default for PartialUpdateQuery
PartialUpdateQueryDefault == [create_if_not_exists |-> TRUE]

\* The query arguments a caller can pass to each operation.
QueriesOf(o) == IF o = "partially_update_object" THEN PartialUpdateQueries ELSE {NoQuery}

\* std::ops::Not::not
Not(b) == ~b

\* A bool value in a form-urlencoded pair
BoolDisplay(b) == IF b THEN "true" ELSE "false"

\* #[derive(Serialize)] of PartialUpdateQuery into a query string: the field
\* is left out when skip_serializing_if answers true.
SerializePartialUpdateQuery(q) ==
    IF Not(q.create_if_not_exists)
    THEN ""
    ELSE "createIfNotExists=" \o BoolDisplay(q.create_if_not_exists)

\* The query string the closure of each operation puts on its request:
\* only partially_update_object calls .query(query).
RequestQuery(o, q) ==
    IF o = "partially_update_object" THEN SerializePartialUpdateQuery(q) ELSE ""

\* The index context each operation passes to check_response:
\* Some(index) in search_inner, None everywhere else.
IndexContext(o, i) == IF o = "search" THEN SomeIndex(i) ELSE NoIndex

----------------------------------------------------------------------------
(* reqwest::StatusCode predicates *)

is_server_error(s) == 500 <= s /\ s <= 599

is_client_error(s) == 400 <= s /\ s <= 499

is_success(s) == 200 <= s /\ s <= 299

NOT_FOUND == 404

BAD_REQUEST == 400

----------------------------------------------------------------------------
(* error.rs *)

\* serde: BadRequestError { message } (unknown fields are ignored)
DecodesAsBadRequestError(body) == body \in {"message", "message_status"}

\* serde: UnexpectedResponseError { message, status }
DecodesAsUnexpectedResponseError(body) == body = "message_status"

\* Variant: a body that fails to decode surfaces as DecodeError.
bad_request_DecodeError(r) ==
    IF DecodesAsBadRequestError(r.body)
    THEN RequestError([type |-> "BadRequestError", message |-> r.body])
    ELSE DecodeError([type |-> "reqwest::Error", decode |-> r.body])

\* Error::bad_request
bad_request(r) ==
    IF DecodesAsBadRequestError(r.body)
    THEN RequestError([type |-> "BadRequestError", message |-> r.body])
    ELSE RequestError([type |-> "reqwest::Error", decode |-> r.body])

\* Error::unexpected
unexpected(r) ==
    IF DecodesAsUnexpectedResponseError(r.body)
    THEN RequestError([type |-> "UnexpectedResponseError", message |-> r.body,
                       status |-> r.status])
    ELSE RequestError([type |-> "reqwest::Error", decode |-> r.body])

----------------------------------------------------------------------------
(* client.rs: classification and decoding *)

\* Variant: the server-error test is missing.
check_response_NoServerError(r, idx) ==
    IF r.tag = "Err"
    THEN IF r.timeout
         THEN OkNone
         ELSE Err(RequestError([type |-> "reqwest::Error", transport |-> TRUE]))
    ELSE IF idx.some /\ r.status = NOT_FOUND THEN Err(IndexNotFound(idx.name))
    ELSE IF r.status = BAD_REQUEST THEN Err(bad_request(r))
    ELSE IF is_client_error(r.status) THEN Err(unexpected(r))
    ELSE OkSome(r)

\* Variant: every transport error is retried, not only timeouts.
check_response_RetryTransport(r, idx) ==
    IF r.tag = "Err"
    THEN OkNone
    ELSE IF is_server_error(r.status) THEN OkNone
    ELSE IF idx.some /\ r.status = NOT_FOUND THEN Err(IndexNotFound(idx.name))
    ELSE IF r.status = BAD_REQUEST THEN Err(bad_request(r))
    ELSE IF is_client_error(r.status) THEN Err(unexpected(r))
    ELSE OkSome(r)

\* Variant: the generic client-error test comes before the 404 test.
check_response_ClientErrorFirst(r, idx) ==
    IF r.tag = "Err"
    THEN IF r.timeout
         THEN OkNone
         ELSE Err(RequestError([type |-> "reqwest::Error", transport |-> TRUE]))
    ELSE IF is_server_error(r.status) THEN OkNone
    ELSE IF r.status = BAD_REQUEST THEN Err(bad_request(r))
    ELSE IF is_client_error(r.status) THEN Err(unexpected(r))
    ELSE IF idx.some /\ r.status = NOT_FOUND THEN Err(IndexNotFound(idx.name))
    ELSE OkSome(r)

\* check_response(resp, index)
check_response(r, idx) ==
    IF r.tag = "Err"
    THEN IF r.timeout
         THEN OkNone
         ELSE Err(RequestError([type |-> "reqwest::Error", transport |-> TRUE]))
    ELSE IF is_server_error(r.status) THEN OkNone
    ELSE IF idx.some /\ r.status = NOT_FOUND THEN Err(IndexNotFound(idx.name))
    ELSE IF r.status = BAD_REQUEST THEN Err(bad_request(r))
    ELSE IF is_client_error(r.status) THEN Err(unexpected(r))
    ELSE OkSome(r)

\* The body deserializes into the response type the operation expects.
DecodesAsExpected(body) == body \in {"expected_a", "expected_b"}

\* Variant: a body that fails to decode is handed back as "try the next host".
decode_RetryOnFailure(r) ==
    IF DecodesAsExpected(r.body)
    THEN OkSome([decoded |-> r.body])
    ELSE OkNone

\* decode::<T>(resp)
decode(r) ==
    IF DecodesAsExpected(r.body)
    THEN OkSome([decoded |-> r.body])
    ELSE Err(DecodeError([type |-> "reqwest::Error", decode |-> r.body]))

\* The value an operation's closure makes of the decoded response:
\* task_status keeps only the status field.
Project(o, d) ==
    IF d.tag = "Ok" /\ d.opt = "Some" /\ o = "task_status"
    THEN OkSome([status |-> d.val.decoded])
    ELSE d

\* The per-attempt closure: unwrap_ret!(check_response(..)) then decode.
Attempt(o, i, r) ==
    LET c == check_response(r, IndexContext(o, i)) IN
    IF c.tag = "Ok" /\ c.opt = "Some"
    THEN Project(o, decode(c.val))
    ELSE c

----------------------------------------------------------------------------
(* client.rs: Client::retry_with *)

RECURSIVE SeqToSet(_)
SeqToSet(s) == IF s = <<>> THEN {} ELSE {Head(s)} \cup SeqToSet(Tail(s))

\* The orders slice::shuffle can leave a copy of `list` in.
Shuffles(list) ==
    {p \in [1..Len(list) -> SeqToSet(list)] :
        \A x \in SeqToSet(list) : \E k \in 1..Len(list) : p[k] = x}

\* Variant: the primary host is left out of the iteration.
BackupNumbers_NoPrimary(order) == order

\* std::iter::once(0).chain(fallback_order.iter().copied())
BackupNumbers(order) == <<0>> \o order

\* format!("https://{}/1/{}", Host::with_backup(app_id, Some(n)), route)
Url(app_id, backup_number, r) ==
    "https://"
        \o HostDisplay(HostWithBackup(app_id, [some |-> TRUE, val |-> backup_number]))
        \o "/1/" \o r

\* No dispatch has been started.
DispatchIdle ==
    /\ pc = "idle"
    /\ op = "none"
    /\ index = ""
    /\ route = ""
    /\ query = NoQuery
    /\ sent_query = <<>>
    /\ fallback_order = <<>>
    /\ pos = 0
    /\ attempted = <<>>
    /\ outcomes = <<>>
    /\ resp = [tag |-> "None"]
    /\ checked = [tag |-> "None"]
    /\ in_flight = 0
    /\ result = [tag |-> "None"]

\* Nothing outside the single dispatch is in use.
\* No Host has been built.
HostIdle ==
    /\ host_args = [ctor |-> "none"]
    /\ the_host = [some |-> FALSE]
    /\ hostname = [some |-> FALSE]

\* No filter has been built.
FilterIdle ==
    /\ and_filter = [type |-> "AndFilter", filters |-> <<>>]
    /\ or_filter = [some |-> FALSE]
    /\ rendered = [some |-> FALSE]

\* No virtual key has been generated.
KeyIdle ==
    /\ parent_key = [key |-> "Example Key"]
    /\ derivations = <<>>

OutsideIdle ==
    /\ calls = <<>>
    /\ HostIdle
    /\ FilterIdle
    /\ KeyIdle

Init ==
    /\ application_id \in AppIds
    /\ DispatchIdle
    /\ OutsideIdle

\* A public operation builds its route and enters retry_with, which copies
\* and shuffles the fallback list.
Call ==
    /\ pc = "idle"
    /\ \E o \in Ops, i \in IndexNames, object_id \in ObjectIds, task_id \in TaskIds,
          order \in Shuffles(HOST_FALLBACK_LIST) :
        /\ op' = o
        /\ index' = i
        /\ route' = RouteOf(o, i, object_id, task_id)
        /\ query' \in QueriesOf(o)
        /\ fallback_order' = order
    /\ pos' = 1
    /\ pc' = "loop"
    /\ UNCHANGED <<application_id, sent_query, attempted, outcomes, resp, checked, in_flight, result>>
    /\ UNCHANGED outside_dispatch

\* Variant: the loop invokes f for the next host without awaiting the answer.
Send_FanOut ==
    /\ pc = "loop"
    /\ pos <= Len(BackupNumbers(fallback_order))
    /\ attempted' = Append(attempted,
                           Url(application_id, BackupNumbers(fallback_order)[pos], route))
    /\ sent_query' = Append(sent_query, RequestQuery(op, query))
    /\ in_flight' = in_flight + 1
    /\ pos' = pos + 1
    /\ UNCHANGED <<application_id, pc, op, query, index, route, fallback_order,
                   outcomes, resp, checked, result>>
    /\ UNCHANGED outside_dispatch

\* The loop takes the next backup number and invokes f with its url; the
\* closure sends the request and awaits the answer.
Send ==
    /\ pc = "loop"
    /\ pos <= Len(BackupNumbers(fallback_order))
    /\ attempted' = Append(attempted,
                           Url(application_id, BackupNumbers(fallback_order)[pos], route))
    /\ sent_query' = Append(sent_query, RequestQuery(op, query))
    /\ in_flight' = in_flight + 1
    /\ pc' = "await"
    /\ UNCHANGED <<application_id, op, query, index, route, fallback_order, pos,
                   outcomes, resp, checked, result>>
    /\ UNCHANGED outside_dispatch

\* The transport answers; the closure classifies it; Ok(None) => continue.
ReceiveContinue ==
    /\ pc = "await"
    /\ \E r \in TransportOutcomes :
        /\ Attempt(op, index, r) = OkNone
        /\ resp' = r
        /\ checked' = check_response(r, IndexContext(op, index))
        /\ outcomes' = Append(outcomes, Attempt(op, index, r))
    /\ in_flight' = in_flight - 1
    /\ pos' = pos + 1
    /\ pc' = "loop"
    /\ UNCHANGED <<application_id, op, query, sent_query, index, route, fallback_order,
                   attempted, result>>
    /\ UNCHANGED outside_dispatch

\* Variant: a successful attempt does not leave the loop.
ReceiveSuccess_Continues ==
    /\ pc = "await"
    /\ \E r \in TransportOutcomes :
        LET a == Attempt(op, index, r) IN
        /\ a.tag = "Ok" /\ a.opt = "Some"
        /\ resp' = r
        /\ checked' = check_response(r, IndexContext(op, index))
        /\ outcomes' = Append(outcomes, a)
    /\ in_flight' = in_flight - 1
    /\ pos' = pos + 1
    /\ pc' = "loop"
    /\ UNCHANGED <<application_id, op, query, sent_query, index, route, fallback_order,
                   attempted, result>>
    /\ UNCHANGED outside_dispatch

\* Ok(Some(res)) => return Ok(res)
ReceiveSuccess ==
    /\ pc = "await"
    /\ \E r \in TransportOutcomes :
        LET a == Attempt(op, index, r) IN
        /\ a.tag = "Ok" /\ a.opt = "Some"
        /\ resp' = r
        /\ checked' = check_response(r, IndexContext(op, index))
        /\ outcomes' = Append(outcomes, a)
        /\ result' = [tag |-> "Ok", val |-> a.val]
    /\ in_flight' = in_flight - 1
    /\ pc' = "done"
    /\ UNCHANGED <<application_id, op, query, sent_query, index, route, fallback_order, pos, attempted>>
    /\ UNCHANGED outside_dispatch

\* Variant: a failed attempt moves on to the next host.
ReceiveFatal_Continues ==
    /\ pc = "await"
    /\ \E r \in TransportOutcomes :
        LET a == Attempt(op, index, r) IN
        /\ a.tag = "Err"
        /\ resp' = r
        /\ checked' = check_response(r, IndexContext(op, index))
        /\ outcomes' = Append(outcomes, a)
    /\ in_flight' = in_flight - 1
    /\ pos' = pos + 1
    /\ pc' = "loop"
    /\ UNCHANGED <<application_id, op, query, sent_query, index, route, fallback_order,
                   attempted, result>>
    /\ UNCHANGED outside_dispatch

\* Err(e) => return Err(e)
ReceiveFatal ==
    /\ pc = "await"
    /\ \E r \in TransportOutcomes :
        LET a == Attempt(op, index, r) IN
        /\ a.tag = "Err"
        /\ resp' = r
        /\ checked' = check_response(r, IndexContext(op, index))
        /\ outcomes' = Append(outcomes, a)
        /\ result' = Err(a.err)
    /\ in_flight' = in_flight - 1
    /\ pc' = "done"
    /\ UNCHANGED <<application_id, op, query, sent_query, index, route, fallback_order, pos, attempted>>
    /\ UNCHANGED outside_dispatch

\* Variant: the loop gives up after the primary and one backup.
Exhausted_Early ==
    /\ pc = "loop"
    /\ pos > 2
    /\ result' = Err(Timeout)
    /\ pc' = "done"
    /\ UNCHANGED <<application_id, op, query, sent_query, index, route, fallback_order, pos,
                   attempted, outcomes, resp, checked, in_flight>>
    /\ UNCHANGED outside_dispatch

\* The iterator is exhausted: Err(Error::Timeout)
Exhausted ==
    /\ pc = "loop"
    /\ pos > Len(BackupNumbers(fallback_order))
    /\ result' = Err(Timeout)
    /\ pc' = "done"
    /\ UNCHANGED <<application_id, op, query, sent_query, index, route, fallback_order, pos,
                   attempted, outcomes, resp, checked, in_flight>>
    /\ UNCHANGED outside_dispatch

Next ==
    \/ Call
    \/ Send
    \/ ReceiveContinue
    \/ ReceiveSuccess
    \/ ReceiveFatal
    \/ Exhausted

Spec == Init /\ [][Next]_vars

TypeOK ==
    /\ pc \in {"idle", "loop", "await", "done"}
    /\ pos \in 0..(Len(HOST_FALLBACK_LIST) + 2)
    /\ in_flight \in Nat

----------------------------------------------------------------------------
(* Properties of the dispatcher and the classifier *)

IsRetryable(o) == o = [tag |-> "Ok", opt |-> "None"]

IsSuccess(o) == o.tag = "Ok" /\ o.opt = "Some"

IsFatal(o) == o.tag = "Err"

AllRetryable(n) == \A j \in 1..n : IsRetryable(outcomes[j])

TimeoutResult == [tag |-> "Err", err |-> [kind |-> "Timeout"]]

\* C1: when every invocation of the attempt function returns Ok(None),
\* retry_with invokes it exactly 1 + |HOST_FALLBACK_LIST| = 4 times and then
\* returns Error::Timeout, whatever the shuffle; it does not return earlier.
C1_AllRetryableTimesOut ==
    AllRetryable(Len(outcomes)) =>
        /\ Len(attempted) <= 4
        /\ (pc = "done" =>
                /\ Len(outcomes) = 1 + Len(HOST_FALLBACK_LIST)
                /\ Len(outcomes) = 4
                /\ Len(attempted) = 4
                /\ result = TimeoutResult)

C1_Witness ==
    /\ pc = "done"
    /\ Len(outcomes) = 4
    /\ AllRetryable(4)
    /\ result = TimeoutResult
    /\ fallback_order = <<3, 1, 2>>

\* C2: when the k-th attempt yields Err(e) after k-1 Ok(None) attempts,
\* retry_with returns exactly Err(e) and no attempt follows the k-th.
C2_FatalShortCircuits ==
    \A k \in 1..Len(outcomes) :
        IsFatal(outcomes[k]) =>
            /\ AllRetryable(k - 1)
            /\ k = Len(outcomes)
            /\ Len(attempted) = k
            /\ in_flight = 0
            /\ pc = "done"
            /\ result = [tag |-> "Err", err |-> outcomes[k].err]

C2_Witness ==
    /\ Len(outcomes) = 2
    /\ IsFatal(outcomes[2])
    /\ Len(attempted) = 2
    /\ pc = "done"
    /\ result.tag = "Err"
    /\ result.err.kind = "DecodeError"

\* C3: when the k-th attempt yields Ok(Some(v)) after k-1 Ok(None) attempts,
\* retry_with returns Ok(v) with that value and the number of attempts is k.
C3_SuccessReturnsValue ==
    \A k \in 1..Len(outcomes) :
        IsSuccess(outcomes[k]) =>
            /\ AllRetryable(k - 1)
            /\ k = Len(outcomes)
            /\ Len(attempted) = k
            /\ in_flight = 0
            /\ pc = "done"
            /\ result = [tag |-> "Ok", val |-> outcomes[k].val]

C3_Witness ==
    /\ Len(outcomes) = 3
    /\ IsSuccess(outcomes[3])
    /\ Len(attempted) = 3
    /\ pc = "done"
    /\ result = [tag |-> "Ok", val |-> [decoded |-> "expected_b"]]

BackupPermutations ==
    {p \in [1..3 -> 1..3] : \A i, j \in 1..3 : i # j => p[i] # p[j]}

\* C4: the hosts attempted are a prefix of [primary] ++ p for a permutation p
\* of the backup slots {1,2,3}: the first url names the primary host with no
\* slot suffix, and an exhausted dispatch has tried each backup exactly once.
C4_HostOrder ==
    /\ Len(attempted) <= 4
    /\ \E p \in BackupPermutations :
        \A k \in 1..Len(attempted) :
            attempted[k] =
                "https://" \o application_id
                    \o (IF k = 1 THEN "" ELSE "-" \o ToString(p[k - 1]))
                    \o ".algolia.net/1/" \o route
    /\ (result = TimeoutResult => Len(attempted) = 4)

C4_Witness ==
    /\ result = TimeoutResult
    /\ attempted = << "https://APPA.algolia.net/1/indexes/idx1/query",
                      "https://APPA-3.algolia.net/1/indexes/idx1/query",
                      "https://APPA-1.algolia.net/1/indexes/idx1/query",
                      "https://APPA-2.algolia.net/1/indexes/idx1/query" >>

\* C5: at most one request of a dispatch is in flight at any time; an attempt
\* is started only after every earlier attempt has completed as Ok(None).
C5_OneInFlight ==
    /\ in_flight <= 1
    /\ Len(attempted) = Len(outcomes) + in_flight
    /\ (in_flight = 1 => AllRetryable(Len(outcomes)))

C5_Witness ==
    /\ in_flight = 1
    /\ Len(attempted) = 3
    /\ Len(outcomes) = 2

IsRetryableTransport(r) ==
    \/ r.tag = "Err" /\ r.timeout
    \/ r.tag = "Ok" /\ r.status \in 500..599

\* C6: check_response returns Ok(None) for a transport timeout and for a 5xx
\* status, and for nothing else; after it the dispatcher moves to the next
\* host of the fallback order.
C6_RetryableClassification ==
    resp.tag # "None" =>
        /\ IsRetryable(checked) <=> IsRetryableTransport(resp)
        /\ IsRetryableTransport(resp) =>
            /\ IsRetryable(outcomes[Len(outcomes)])
            /\ pos = Len(outcomes) + 1
            /\ (pc = "done" => Len(outcomes) = 4 /\ result = TimeoutResult)

C6_Witness ==
    /\ resp = [tag |-> "Ok", status |-> 503, body |-> "message"]
    /\ IsRetryable(checked)
    /\ pc = "await"
    /\ Len(attempted) = 2

\* C7: a transport failure that is not a timeout is classified
\* Err(RequestError); the dispatch returns it at once and no further host is
\* tried, whether the primary or a backup produced it.
C7_TransportFailureFatal ==
    (resp.tag = "Err" /\ ~resp.timeout) =>
        /\ checked.tag = "Err"
        /\ checked.err.kind = "RequestError"
        /\ result = checked
        /\ pc = "done"
        /\ Len(attempted) = Len(outcomes)
        /\ in_flight = 0

C7_Witness ==
    /\ resp = [tag |-> "Err", timeout |-> FALSE]
    /\ Len(attempted) = 3
    /\ pc = "done"
    /\ result.tag = "Err"
    /\ result.err.kind = "RequestError"

\* C8: a 404 with an index context (search) yields IndexNotFound carrying the
\* supplied index name, ahead of the generic 4xx rule; a 404 without index
\* context (every other operation) yields RequestError.
C8_NotFound ==
    (resp.tag = "Ok" /\ resp.status = 404) =>
        /\ op = "search" =>
            checked = [tag |-> "Err", err |-> [kind |-> "IndexNotFound", index |-> index]]
        /\ op # "search" =>
            /\ checked.tag = "Err"
            /\ checked.err.kind = "RequestError"
        /\ result = checked
        /\ pc = "done"

C8_Witness ==
    /\ resp.tag = "Ok"
    /\ resp.status = 404
    /\ op = "search"
    /\ index = "idx2"
    /\ result = [tag |-> "Err", err |-> [kind |-> "IndexNotFound", index |-> "idx2"]]

\* C9: a 400 always yields Err(RequestError): with the decoded {message} as
\* its cause when the body decodes, with the decode failure as its cause when
\* it does not; never Ok(None), Ok(Some) or DecodeError.
C9_BadRequest ==
    (resp.tag = "Ok" /\ resp.status = 400) =>
        /\ checked.tag = "Err"
        /\ checked.err.kind = "RequestError"
        /\ checked.err.source =
            IF resp.body \in {"message", "message_status"}
            THEN [type |-> "BadRequestError", message |-> resp.body]
            ELSE [type |-> "reqwest::Error", decode |-> resp.body]
        /\ result = checked
        /\ pc = "done"

C9_Witness ==
    /\ resp = [tag |-> "Ok", status |-> 400, body |-> "garbage"]
    /\ op = "search"
    /\ result.tag = "Err"
    /\ result.err.kind = "RequestError"
    /\ result.err.source.type = "reqwest::Error"

\* C10: check_response returns Ok(Some(response)) only for 2xx statuses;
\* every status outside 2xx is classified Ok(None) or Err.
C10_SuccessOnly2xx ==
    (resp.tag = "Ok" /\ IsSuccess(checked)) => resp.status \in 200..299

\* C11: a 2xx response whose body does not decode into the expected type
\* makes the operation fail with DecodeError (not RequestError); the dispatch
\* stops there: the attempt is not Ok(None) and no further host is attempted.
C11_DecodeFailureFatal ==
    (/\ resp.tag = "Ok"
     /\ resp.status \in 200..299
     /\ resp.body \notin {"expected_a", "expected_b"}) =>
        /\ result.tag = "Err"
        /\ result.err.kind = "DecodeError"
        /\ result.err.kind # "RequestError"
        /\ outcomes[Len(outcomes)] = result
        /\ ~IsRetryable(outcomes[Len(outcomes)])
        /\ pc = "done"
        /\ in_flight = 0
        /\ Len(attempted) = Len(outcomes)

C11_Witness ==
    /\ resp = [tag |-> "Ok", status |-> 200, body |-> "garbage"]
    /\ Len(attempted) = 2
    /\ pc = "done"
    /\ result.tag = "Err"
    /\ result.err.kind = "DecodeError"

----------------------------------------------------------------------------
(* client.rs: several dispatches in progress on one Client *)

\* The callers that hold a reference to the same Client.
Calls == {"a", "b"}

ConcOps == {"search", "delete_object"}

ConcIndexNames == {"idx1"}

ConcTransportOutcomes ==
    {[tag |-> "Err", timeout |-> TRUE],
     [tag |-> "Err", timeout |-> FALSE],
     [tag |-> "Ok", status |-> 200, body |-> "expected_a"],
     [tag |-> "Ok", status |-> 200, body |-> "garbage"],
     [tag |-> "Ok", status |-> 404, body |-> "message"],
     [tag |-> "Ok", status |-> 503, body |-> "garbage"]}

\* The locals of one retry_with future before it is first polled.
IdleCall ==
    [pc |-> "idle", op |-> "none", index |-> "", route |-> "",
     fallback_order |-> <<>>, pos |-> 0, attempted |-> <<>>,
     outcomes |-> <<>>, result |-> [tag |-> "None"]]

ConcInit ==
    /\ application_id \in AppIds
    /\ DispatchIdle
    /\ calls = [c \in Calls |-> IdleCall]
    /\ HostIdle
    /\ FilterIdle
    /\ KeyIdle

\* Variant: the shuffled order is kept in a field shared by every dispatch
\* of the client instead of in a local of retry_with.
ConcCall_SharedOrder(c) ==
    /\ calls[c].pc = "idle"
    /\ \E o \in ConcOps, i \in ConcIndexNames, object_id \in ObjectIds,
          task_id \in TaskIds, order \in Shuffles(HOST_FALLBACK_LIST) :
        calls' = [d \in Calls |->
                    IF d = c
                    THEN [calls[c] EXCEPT !.pc = "loop",
                                          !.op = o,
                                          !.index = i,
                                          !.route = RouteOf(o, i, object_id, task_id),
                                          !.fallback_order = order,
                                          !.pos = 1]
                    ELSE [calls[d] EXCEPT !.fallback_order = order]]
    /\ UNCHANGED <<application_id, outside_calls>>

\* Caller c enters retry_with: its own copy of the list, its own shuffle.
ConcCall(c) ==
    /\ calls[c].pc = "idle"
    /\ \E o \in ConcOps, i \in ConcIndexNames, object_id \in ObjectIds,
          task_id \in TaskIds, order \in Shuffles(HOST_FALLBACK_LIST) :
        calls' = [calls EXCEPT ![c] =
                    [@ EXCEPT !.pc = "loop",
                              !.op = o,
                              !.index = i,
                              !.route = RouteOf(o, i, object_id, task_id),
                              !.fallback_order = order,
                              !.pos = 1]]
    /\ UNCHANGED <<application_id, outside_calls>>

\* Caller c's loop invokes f for its next backup number and awaits.
ConcSend(c) ==
    /\ calls[c].pc = "loop"
    /\ calls[c].pos <= Len(BackupNumbers(calls[c].fallback_order))
    /\ calls' = [calls EXCEPT ![c] =
                    [@ EXCEPT !.pc = "await",
                              !.attempted =
                                  Append(@, Url(application_id,
                                                BackupNumbers(calls[c].fallback_order)[calls[c].pos],
                                                calls[c].route))]]
    /\ UNCHANGED <<application_id, outside_calls>>

\* Caller c's request is answered and matched by retry_with.
ConcReceive(c) ==
    /\ calls[c].pc = "await"
    /\ \E r \in ConcTransportOutcomes :
        LET a == Attempt(calls[c].op, calls[c].index, r) IN
        calls' = [calls EXCEPT ![c] =
                    IF a = OkNone
                    THEN [@ EXCEPT !.outcomes = Append(@, a),
                                   !.pos = @ + 1,
                                   !.pc = "loop"]
                    ELSE IF a.tag = "Ok"
                    THEN [@ EXCEPT !.outcomes = Append(@, a),
                                   !.result = [tag |-> "Ok", val |-> a.val],
                                   !.pc = "done"]
                    ELSE [@ EXCEPT !.outcomes = Append(@, a),
                                   !.result = Err(a.err),
                                   !.pc = "done"]]
    /\ UNCHANGED <<application_id, outside_calls>>

\* Caller c's iterator is exhausted: Err(Error::Timeout)
ConcExhausted(c) ==
    /\ calls[c].pc = "loop"
    /\ calls[c].pos > Len(BackupNumbers(calls[c].fallback_order))
    /\ calls' = [calls EXCEPT ![c] =
                    [@ EXCEPT !.result = Err(Timeout), !.pc = "done"]]
    /\ UNCHANGED <<application_id, outside_calls>>

NextConc ==
    \E c \in Calls :
        \/ ConcCall(c)
        \/ ConcSend(c)
        \/ ConcReceive(c)
        \/ ConcExhausted(c)

SpecConc == ConcInit /\ [][NextConc]_vars

\* What a dispatch running alone makes of its own shuffle and its own
\* per-attempt outcomes.
DeterminedByOwn(c) ==
    LET r == calls[c]
        decisive == {k \in 1..Len(r.outcomes) : ~IsRetryable(r.outcomes[k])}
    IN
    /\ Len(r.attempted) <= 4
    /\ Len(r.attempted) = Len(r.outcomes) + (IF r.pc = "await" THEN 1 ELSE 0)
    /\ \A k \in 1..Len(r.attempted) :
        r.attempted[k] =
            "https://" \o application_id
                \o (IF k = 1 THEN "" ELSE "-" \o ToString(r.fallback_order[k - 1]))
                \o ".algolia.net/1/" \o r.route
    /\ decisive # {} =>
        /\ decisive = {Len(r.outcomes)}
        /\ r.pc = "done"
        /\ r.result =
            LET last == r.outcomes[Len(r.outcomes)] IN
            IF last.tag = "Err" THEN last ELSE [tag |-> "Ok", val |-> last.val]
    /\ decisive = {} =>
        IF r.pc = "done"
        THEN Len(r.outcomes) = 4 /\ r.result = TimeoutResult
        ELSE r.result = [tag |-> "None"]

\* A step of one dispatch leaves every other dispatch and the client alone,
\* and a dispatch's shuffle does not change once made.
StepTouchesOneCall ==
    /\ application_id' = application_id
    /\ \A c \in Calls :
        /\ calls'[c] # calls[c] => \A d \in Calls \ {c} : calls'[d] = calls[d]
        /\ calls[c].pc # "idle" => calls'[c].fallback_order = calls[c].fallback_order

\* C12: dispatches in progress at the same time on one client are
\* independent: under every interleaving each call's attempt count, host order
\* and result are those given by its own shuffle and its own outcomes, and no
\* step of one call changes the state of another.
C12_IndependentDispatches ==
    /\ [](\A c \in Calls : DeterminedByOwn(c))
    /\ [][StepTouchesOneCall]_vars

C12_Witness ==
    /\ calls["a"].pc = "await"
    /\ calls["b"].pc = "await"
    /\ Len(calls["a"].attempted) = 3
    /\ Len(calls["b"].attempted) = 2
    /\ calls["a"].fallback_order = <<2, 3, 1>>
    /\ calls["b"].fallback_order = <<3, 1, 2>>
    /\ calls["a"].op # calls["b"].op

----------------------------------------------------------------------------
(* host.rs: building and rendering a Host *)

MaxSlot == 9

HostAppIds == {"APPA", "APPB", "latency", "T3"}

\* Option<usize> arguments of Host::with_backup
SlotArgs == {[some |-> FALSE]} \cup {[some |-> TRUE, val |-> n] : n \in 0..MaxSlot}

HostInit ==
    /\ application_id \in HostAppIds
    /\ DispatchIdle
    /\ calls = <<>>
    /\ HostIdle
    /\ FilterIdle
    /\ KeyIdle

\* Host::new(app_id)
BuildNew ==
    /\ host_args' = [ctor |-> "new"]
    /\ the_host' = [some |-> TRUE, val |-> HostNew(application_id)]
    /\ hostname' = [some |-> FALSE]
    /\ UNCHANGED <<application_id, outside_host>>

\* Host::with_dsn(app_id, dsn)
BuildWithDsn ==
    /\ \E dsn \in BOOLEAN :
        /\ host_args' = [ctor |-> "with_dsn", dsn |-> dsn]
        /\ the_host' = [some |-> TRUE, val |-> HostWithDsn(application_id, dsn)]
    /\ hostname' = [some |-> FALSE]
    /\ UNCHANGED <<application_id, outside_host>>

\* Host::with_backup(app_id, backup_number)
BuildWithBackup ==
    /\ \E slot \in SlotArgs :
        /\ host_args' = [ctor |-> "with_backup", slot |-> slot]
        /\ the_host' = [some |-> TRUE, val |-> HostWithBackup(application_id, slot)]
    /\ hostname' = [some |-> FALSE]
    /\ UNCHANGED <<application_id, outside_host>>

\* host.to_string()
Render ==
    /\ the_host.some
    /\ ~hostname.some
    /\ hostname' = [some |-> TRUE, val |-> HostDisplay(the_host.val)]
    /\ UNCHANGED <<application_id, outside_host, host_args, the_host>>

NextHost ==
    \/ BuildNew
    \/ BuildWithDsn
    \/ BuildWithBackup
    \/ Render

SpecHost == HostInit /\ [][NextHost]_vars

\* C13: a host renders as <tenant>, then "-dsn" iff the dsn flag is set, then
\* "-<slot>" iff the slot is a non-zero integer, then ".algolia.net"; slot
\* None and slot Some(0) both render with no slot suffix, and Some(n), n > 0,
\* renders a name ending in "-n.algolia.net".
C13_HostRendering ==
    hostname.some =>
        hostname.val =
            application_id
                \o (IF host_args.ctor = "with_dsn" /\ host_args.dsn
                    THEN "-dsn" ELSE "")
                \o (IF /\ host_args.ctor = "with_backup"
                       /\ host_args.slot.some
                       /\ host_args.slot.val > 0
                    THEN "-" \o ToString(host_args.slot.val) ELSE "")
                \o ".algolia.net"

C13_Witness ==
    /\ host_args = [ctor |-> "with_backup", slot |-> [some |-> TRUE, val |-> 0]]
    /\ application_id = "latency"
    /\ hostname = [some |-> TRUE, val |-> "latency.algolia.net"]

----------------------------------------------------------------------------
(* filter.rs: filter values and their Display *)

\* Strings held by filters are sequences of characters, so that escaping can
\* look at each character; rendered text is a plain string.

\* char::escape_debug, on the characters the inputs use
EscapeDebugChar(c) ==
    CASE c = "\"" -> "\\\""
      [] c = "'" -> "\\'"
      [] c = "\\" -> "\\\\"
      [] c = "\n" -> "\\n"
      [] c = "\t" -> "\\t"
      [] OTHER -> c

\* str::escape_debug
RECURSIVE EscapeDebug(_)
EscapeDebug(chars) ==
    IF chars = <<>> THEN "" ELSE EscapeDebugChar(Head(chars)) \o EscapeDebug(Tail(chars))

\* fmt::Result together with the text written so far
FmtOk(text) == [err |-> FALSE, text |-> text]

FmtErr == [err |-> TRUE, text |-> ""]

\* Two writes in sequence, the second skipped when the first fails (the ? operator)
FmtThen(a, b) ==
    IF a.err THEN a ELSE [err |-> b.err, text |-> a.text \o b.text]

\* impl Display for Number: the natural text of the wrapped number
NumberDisplay(n) == ToString(n.val)

\* FilterOperator::as_str
FilterOperatorAsStr(operator) ==
    CASE operator = "Lt" -> "<"
      [] operator = "Le" -> "<="
      [] operator = "Eq" -> "="
      [] operator = "Ne" -> "!="
      [] operator = "Ge" -> ">="
      [] operator = "Gt" -> ">"

\* impl Display for BooleanFilter
BooleanFilterDisplay(f) ==
    FmtOk("\"" \o EscapeDebug(f.facet_name) \o "\":"
            \o (IF f.value THEN "true" ELSE "false"))

\* impl Display for TagFilter
TagFilterDisplay(f) ==
    FmtOk("_tags:\"" \o EscapeDebug(f.tag) \o "\"")

\* impl Display for FacetFilter
FacetFilterDisplay(f) ==
    FmtOk("\"" \o EscapeDebug(f.facet_name) \o "\":\"" \o EscapeDebug(f.value) \o "\"")

\* `self.score > i64::MAX` on an i64: no value of the type is above its maximum
ScoreAboveI64Max(score) == FALSE

\* impl Display for ScoredFacetFilter
ScoredFacetFilterDisplay(f) ==
    IF ScoreAboveI64Max(f.score)
    THEN FmtErr
    ELSE FmtOk("\"" \o EscapeDebug(f.facet_name) \o "\":\"" \o EscapeDebug(f.value)
                 \o "\"<score=" \o ToString(f.score) \o ">")

\* impl Display for RangeFilter
RangeFilterDisplay(f) ==
    FmtOk("\"" \o EscapeDebug(f.attribute_name) \o "\": "
            \o NumberDisplay(f.lower_bound) \o " TO " \o NumberDisplay(f.upper_bound))

\* impl Display for CmpFilter
CmpFilterDisplay(f) ==
    FmtOk("\"" \o EscapeDebug(f.attribute_name) \o "\" "
            \o FilterOperatorAsStr(f.operator) \o " " \o NumberDisplay(f.value))

\* Display of the leaf a CommonFilter<T> wraps, by its type T
LeafDisplay(f) ==
    CASE f.type = "BooleanFilter" -> BooleanFilterDisplay(f)
      [] f.type = "TagFilter" -> TagFilterDisplay(f)
      [] f.type = "FacetFilter" -> FacetFilterDisplay(f)
      [] f.type = "ScoredFacetFilter" -> ScoredFacetFilterDisplay(f)
      [] f.type = "RangeFilter" -> RangeFilterDisplay(f)
      [] f.type = "CmpFilter" -> CmpFilterDisplay(f)

\* impl Display for CommonFilter<T>
CommonFilterDisplay(cf) ==
    FmtThen(IF cf.invert THEN FmtOk("NOT ") ELSE FmtOk(""), LeafDisplay(cf.filter))

\* Variant: the separator is written after every item.
RECURSIVE SeparatedRest_Trailing(_, _)
SeparatedRest_Trailing(rest, sep) ==
    IF rest = <<>>
    THEN FmtOk(sep)
    ELSE FmtThen(FmtThen(FmtOk(sep), Head(rest)), SeparatedRest_Trailing(Tail(rest), sep))

\* Separated's loop over the items after the first: separator, then item
RECURSIVE SeparatedRest(_, _)
SeparatedRest(rest, sep) ==
    IF rest = <<>>
    THEN FmtOk("")
    ELSE FmtThen(FmtThen(FmtOk(sep), Head(rest)), SeparatedRest(Tail(rest), sep))

\* impl Display for Separated; `items` are the items' own Display results
Separated(items, sep) ==
    IF items = <<>>
    THEN FmtOk("")
    ELSE FmtThen(Head(items), SeparatedRest(Tail(items), sep))

\* impl Display for OrFilter<T>
OrFilterDisplay(o) ==
    Separated([k \in 1..Len(o.filters) |-> CommonFilterDisplay(o.filters[k])], " OR ")

\* Display of a Box<dyn AndFilterable>
AndFilterableDisplay(m) ==
    IF m.type = "OrFilter" THEN OrFilterDisplay(m) ELSE CommonFilterDisplay(m)

\* impl Display for AndFilter
AndFilterDisplay(a) ==
    Separated([k \in 1..Len(a.filters) |-> AndFilterableDisplay(a.filters[k])], " AND ")

\* mark!(CommonFilterKind; ...)
CommonFilterKindImpls ==
    {"BooleanFilter", "TagFilter", "FacetFilter", "ScoredFacetFilter",
     "RangeFilter", "CmpFilter"}

\* Variant: the leaf types are marked AndFilterable themselves.
IsAndFilterable_RawLeaves(v) ==
    \/ v.type \in CommonFilterKindImpls
    \/ v.type \in {"OrFilter", "CommonFilter"} /\ v.kind \in CommonFilterKindImpls

\* impl<T: CommonFilterKind> AndFilterable for OrFilter<T> / CommonFilter<T>
IsAndFilterable(v) ==
    v.type \in {"OrFilter", "CommonFilter"} /\ v.kind \in CommonFilterKindImpls

\* CommonFilter { invert, filter }, of type CommonFilter<T> for the leaf's type T
CommonFilterNew(invert, filter) ==
    [type |-> "CommonFilter", kind |-> filter.type, invert |-> invert, filter |-> filter]

\* OrFilter::<T>::default()
OrFilterDefault(kind) == [type |-> "OrFilter", kind |-> kind, filters |-> <<>>]

\* AndFilter::default()
AndFilterDefault == [type |-> "AndFilter", filters |-> <<>>]

----------------------------------------------------------------------------
(* filter.rs: building and rendering filters *)

MaxAndMembers == 2

MaxOrMembers == 2

\* Leaf filters the caller has at hand.
Leaves ==
    {[type |-> "BooleanFilter", facet_name |-> <<"i", "s", "\"", "o", "n">>, value |-> TRUE],
     [type |-> "TagFilter", tag |-> <<"x">>],
     [type |-> "FacetFilter", facet_name |-> <<"a">>, value |-> <<"1">>],
     [type |-> "FacetFilter", facet_name |-> <<"a">>, value |-> <<"2">>],
     [type |-> "ScoredFacetFilter", facet_name |-> <<"b", "r", "a", "n", "d">>,
      value |-> <<"n", "i", "k", "e">>, score |-> 42],
     [type |-> "ScoredFacetFilter", facet_name |-> <<"b", "r", "a", "n", "d">>,
      value |-> <<"n", "i", "k", "e">>, score |-> -1],
     [type |-> "RangeFilter", attribute_name |-> <<"p">>,
      lower_bound |-> [variant |-> "I32", val |-> 1],
      upper_bound |-> [variant |-> "I32", val |-> 10]],
     [type |-> "CmpFilter", attribute_name |-> <<"p">>, operator |-> "Ge",
      value |-> [variant |-> "I64", val |-> -5]]}

\* Values that are filters but not leaf kinds.
NonLeaves == {[type |-> "AndFilter", filters |-> <<>>], [type |-> "EmptyFilter"]}

\* The invert flag the caller gives each value it wraps.
InvertOf(f) == f.type \in {"TagFilter", "CmpFilter"}

\* The CommonFilter<T> values that type-check: T must be a CommonFilterKind.
Commons ==
    {CommonFilterNew(InvertOf(f), f) : f \in {g \in Leaves \cup NonLeaves :
                                                g.type \in CommonFilterKindImpls}}

\* What a caller may try to put into a group.
PushCandidates == Commons \cup Leaves \cup NonLeaves

FilterInit ==
    /\ application_id = "APPA"
    /\ DispatchIdle
    /\ calls = <<>>
    /\ HostIdle
    /\ FilterIdle
    /\ KeyIdle

\* OrFilter::<T>::default(), for a T that satisfies the CommonFilterKind bound.
\* The caller builds one group at a time: it starts an OrFilter only while the
\* AndFilter has room for it.
OrNew ==
    /\ ~or_filter.some
    /\ Len(and_filter.filters) < MaxAndMembers
    /\ \E kind \in {f.type : f \in Leaves \cup NonLeaves} :
        /\ kind \in CommonFilterKindImpls
        /\ or_filter' = [some |-> TRUE, val |-> OrFilterDefault(kind)]
    /\ rendered' = [some |-> FALSE]
    /\ UNCHANGED <<application_id, outside_filter, and_filter>>

\* or.filters.push(v): v must be a CommonFilter<T> for the group's T
OrPush ==
    /\ or_filter.some
    /\ Len(or_filter.val.filters) < MaxOrMembers
    /\ \E v \in PushCandidates :
        /\ v.type = "CommonFilter"
        /\ v.kind = or_filter.val.kind
        /\ or_filter' = [or_filter EXCEPT !.val.filters = Append(@, v)]
    /\ rendered' = [some |-> FALSE]
    /\ UNCHANGED <<application_id, outside_filter, and_filter>>

\* and.filters.push(Box::new(v)): v must be AndFilterable.
\* The caller finishes the OrFilter it is building before pushing other members.
AndPush ==
    /\ ~or_filter.some
    /\ Len(and_filter.filters) < MaxAndMembers
    /\ \E v \in PushCandidates :
        /\ IsAndFilterable(v)
        /\ and_filter' = [and_filter EXCEPT !.filters = Append(@, v)]
    /\ rendered' = [some |-> FALSE]
    /\ UNCHANGED <<application_id, outside_filter, or_filter>>

\* and.filters.push(Box::new(or)): the finished OrFilter moves into the AndFilter
AndPushOr ==
    /\ or_filter.some
    /\ Len(and_filter.filters) < MaxAndMembers
    /\ IsAndFilterable(or_filter.val)
    /\ and_filter' = [and_filter EXCEPT !.filters = Append(@, or_filter.val)]
    /\ or_filter' = [some |-> FALSE]
    /\ rendered' = [some |-> FALSE]
    /\ UNCHANGED <<application_id, outside_filter>>

\* and.to_string(); a fmt::Error would panic
RenderAnd ==
    /\ ~rendered.some
    /\ ~AndFilterDisplay(and_filter).err
    /\ rendered' = [some |-> TRUE, of |-> "AndFilter",
                    val |-> AndFilterDisplay(and_filter).text]
    /\ UNCHANGED <<application_id, outside_filter, and_filter, or_filter>>

\* or.to_string()
RenderOr ==
    /\ ~rendered.some
    /\ or_filter.some
    /\ ~OrFilterDisplay(or_filter.val).err
    /\ rendered' = [some |-> TRUE, of |-> "OrFilter",
                    val |-> OrFilterDisplay(or_filter.val).text]
    /\ UNCHANGED <<application_id, outside_filter, and_filter, or_filter>>

NextFilter ==
    \/ OrNew
    \/ OrPush
    \/ AndPush
    \/ AndPushOr
    \/ RenderAnd
    \/ RenderOr

SpecFilter == FilterInit /\ [][NextFilter]_vars

----------------------------------------------------------------------------
(* Properties of the filters *)

\* The leaves wrapped by the members of a group member (a CommonFilter or an OrFilter).
LeavesOf(m) ==
    IF m.type = "OrFilter"
    THEN {m.filters[k].filter : k \in 1..Len(m.filters)}
    ELSE {m.filter}

\* Every leaf held by the filters built so far.
LeavesHeld ==
    UNION {LeavesOf(and_filter.filters[k]) : k \in 1..Len(and_filter.filters)}
        \cup (IF or_filter.some THEN LeavesOf(or_filter.val) ELSE {})

\* C14: no scored-facet filter whose score is outside [0, i64::MAX] is ever
\* built and rendered to text: the range is enforced when the filter is made.
C14_ScoreRangeEnforced ==
    rendered.some =>
        \A f \in LeavesHeld : f.type = "ScoredFacetFilter" => f.score >= 0

\* The members' texts joined with the separator between consecutive members.
RECURSIVE ExpectedJoin(_, _)
ExpectedJoin(texts, sep) ==
    IF Len(texts) = 0 THEN ""
    ELSE IF Len(texts) = 1 THEN texts[1]
    ELSE ExpectedJoin(SubSeq(texts, 1, Len(texts) - 1), sep) \o sep \o texts[Len(texts)]

\* C15: a composite renders as its members in insertion order joined by
\* " AND " (AndFilter) or " OR " (OrFilter), with no leading or trailing
\* separator and no parentheses; one member renders as itself and no member
\* renders as the empty string.
C15_CompositeRendering ==
    rendered.some =>
        LET texts ==
                IF rendered.of = "AndFilter"
                THEN [k \in 1..Len(and_filter.filters) |->
                        AndFilterableDisplay(and_filter.filters[k]).text]
                ELSE [k \in 1..Len(or_filter.val.filters) |->
                        CommonFilterDisplay(or_filter.val.filters[k]).text]
            sep == IF rendered.of = "AndFilter" THEN " AND " ELSE " OR "
        IN
        /\ rendered.val = ExpectedJoin(texts, sep)
        /\ Len(texts) = 0 => rendered.val = ""
        /\ Len(texts) = 1 => rendered.val = texts[1]

C15_Witness ==
    /\ Len(and_filter.filters) = 2
    /\ and_filter.filters[1].type = "OrFilter"
    /\ rendered = [some |-> TRUE, of |-> "AndFilter",
                   val |-> "\"a\":\"1\" OR \"a\":\"2\" AND NOT _tags:\"x\""]

LeafTypes ==
    {"BooleanFilter", "TagFilter", "FacetFilter", "ScoredFacetFilter",
     "RangeFilter", "CmpFilter"}

IsWrappedLeafOf(e, kind) ==
    /\ e.type = "CommonFilter"
    /\ e.filter.type = kind
    /\ kind \in LeafTypes

IsOrGroup(m) ==
    /\ m.type = "OrFilter"
    /\ \A k \in 1..Len(m.filters) : IsWrappedLeafOf(m.filters[k], m.kind)

\* C16: every filter that can be built obeys the two-level grammar: a member
\* of an AndFilter is a CommonFilter (a NOT-wrapped leaf) or an OrFilter, never
\* a raw leaf or an AndFilter; an OrFilter holds CommonFilters of one leaf kind.
C16_TwoLevelGrammar ==
    /\ \A k \in 1..Len(and_filter.filters) :
        LET m == and_filter.filters[k] IN
        /\ m.type \in {"CommonFilter", "OrFilter"}
        /\ m.type = "CommonFilter" => \E kind \in LeafTypes : IsWrappedLeafOf(m, kind)
        /\ m.type = "OrFilter" => IsOrGroup(m)
    /\ or_filter.some => IsOrGroup(or_filter.val)

C16_Witness ==
    /\ Len(and_filter.filters) = 2
    /\ and_filter.filters[1].type = "OrFilter"
    /\ Len(and_filter.filters[1].filters) = 2
    /\ and_filter.filters[1].kind = "FacetFilter"
    /\ and_filter.filters[2].type = "CommonFilter"
    /\ and_filter.filters[2].invert
    /\ and_filter.filters[2].filter.type = "TagFilter"

\* C17: no AndFilter that can be built contains a scored-facet filter, neither
\* as a NOT-wrapped leaf nor inside an OrFilter member.
C17_NoScoredFacetInAnd ==
    \A k \in 1..Len(and_filter.filters) :
        \A f \in LeavesOf(and_filter.filters[k]) : f.type # "ScoredFacetFilter"

----------------------------------------------------------------------------
(* key.rs, request.rs: virtual keys *)

MaxDerivations == 2

ParentKeys == {[key |-> "Example Key"], [key |-> "k2"]}

\* Option<String> user tokens, as sequences of characters
UserTokens ==
    {[some |-> FALSE],
     [some |-> TRUE, val |-> <<>>],
     [some |-> TRUE, val |-> <<"u", "1">>],
     [some |-> TRUE, val |-> <<"a", " ", "b">>],
     [some |-> TRUE, val |-> <<"a", "&", "b">>]}

\* Option<DateTime<Utc>> expiry instants: seconds since the epoch and the
\* nanoseconds within the second
ValidUntils ==
    {[some |-> FALSE],
     [some |-> TRUE, val |-> [secs |-> 1700000000, nanos |-> 0]],
     [some |-> TRUE, val |-> [secs |-> 1700000000, nanos |-> 500]],
     [some |-> TRUE, val |-> [secs |-> -1, nanos |-> 0]]}

\* VirtualKeyRestrictions values
RestrictionSets == [user_token : UserTokens, valid_until : ValidUntils]

\* form_urlencoded byte serializer, on the characters the inputs use
FormUrlEncodeChar(c) ==
    CASE c = " " -> "+"
      [] c = "&" -> "%26"
      [] c = "=" -> "%3D"
      [] c = "+" -> "%2B"
      [] c = "%" -> "%25"
      [] OTHER -> c

RECURSIVE FormUrlEncode(_)
FormUrlEncode(chars) ==
    IF chars = <<>> THEN "" ELSE FormUrlEncodeChar(Head(chars)) \o FormUrlEncode(Tail(chars))

\* DateTime::timestamp
Timestamp(dt) == dt.secs

\* Variant: the expiry is serialized before the user token.
SerializeRestrictions_ExpiryFirst(r) ==
    LET user_token == IF r.user_token.some
                      THEN <<"userToken=" \o FormUrlEncode(r.user_token.val)>>
                      ELSE <<>>
        valid_until == IF r.valid_until.some
                       THEN <<"validUntil=" \o ToString(Timestamp(r.valid_until.val))>>
                       ELSE <<>>
        pairs == valid_until \o user_token
    IN
    IF pairs = <<>> THEN ""
    ELSE IF Len(pairs) = 1 THEN pairs[1]
    ELSE pairs[1] \o "&" \o pairs[2]

\* serde_urlencoded::to_string(&restrictions): the fields in declaration
\* order, a None field skipped, pairs joined by "&"
SerializeRestrictions(r) ==
    LET user_token == IF r.user_token.some
                      THEN <<"userToken=" \o FormUrlEncode(r.user_token.val)>>
                      ELSE <<>>
        valid_until == IF r.valid_until.some
                       THEN <<"validUntil=" \o ToString(Timestamp(r.valid_until.val))>>
                       ELSE <<>>
        pairs == user_token \o valid_until
    IN
    IF pairs = <<>> THEN ""
    ELSE IF Len(pairs) = 1 THEN pairs[1]
    ELSE pairs[1] \o "&" \o pairs[2]

\* HMAC-SHA256, hex and base64 are kept as terms: equal terms for equal
\* arguments, different terms for different arguments.
HmacSha256(key, message) == [hmac_sha256 |-> [key |-> key, message |-> message]]

HexEncode(bytes) == [hex |-> bytes]

\* key.push_str(&restrictions) on the 64 hexadecimal digits
PushStr(digits, tail) == [digits |-> digits, tail |-> tail]

Base64Encode(text) == [base64 |-> text]

\* Variant: an empty serialized string is signed as it is.
GenerateVirtualKey_NoPlaceholder(parent, r) ==
    LET restrictions == SerializeRestrictions(r)
    IN
    [key |-> Base64Encode(PushStr(HexEncode(HmacSha256(parent.key, restrictions)),
                                  restrictions))]

\* Variant: the placeholder is hashed but the serialized string is appended.
GenerateVirtualKey_AppendsSerialized(parent, r) ==
    LET serialized == SerializeRestrictions(r)
        restrictions == IF serialized = "" THEN "userToken=" ELSE serialized
    IN
    [key |-> Base64Encode(PushStr(HexEncode(HmacSha256(parent.key, restrictions)),
                                  serialized))]

\* ApiKey::generate_virtual_key
GenerateVirtualKey(parent, r) ==
    LET serialized == SerializeRestrictions(r)
        restrictions == IF serialized = "" THEN "userToken=" ELSE serialized
    IN
    [key |-> Base64Encode(PushStr(HexEncode(HmacSha256(parent.key, restrictions)),
                                  restrictions))]

KeyInit ==
    /\ application_id = "APPA"
    /\ DispatchIdle
    /\ calls = <<>>
    /\ HostIdle
    /\ FilterIdle
    /\ parent_key \in ParentKeys
    /\ derivations = <<>>

\* parent_key.generate_virtual_key(&restrictions): takes &self
Derive ==
    /\ Len(derivations) < MaxDerivations
    /\ \E r \in RestrictionSets :
        derivations' = Append(derivations,
                              [restrictions |-> r,
                               virtual_key |-> GenerateVirtualKey(parent_key, r)])
    /\ UNCHANGED <<application_id, outside_key, parent_key>>

NextKey == Derive

SpecKey == KeyInit /\ [][NextKey]_vars

----------------------------------------------------------------------------
(* Properties of the virtual keys *)

\* The serialized restrictions the claims expect: userToken first, then
\* validUntil as epoch seconds, a field that is None left out.
ExpectedEncoding(r) ==
    IF r.user_token.some /\ r.valid_until.some
    THEN "userToken=" \o FormUrlEncode(r.user_token.val)
            \o "&validUntil=" \o ToString(r.valid_until.val.secs)
    ELSE IF r.user_token.some
    THEN "userToken=" \o FormUrlEncode(r.user_token.val)
    ELSE IF r.valid_until.some
    THEN "validUntil=" \o ToString(r.valid_until.val.secs)
    ELSE ""

\* The string the key carries after the digest
PayloadOf(k) == k.key.base64.tail

\* The string the digest was computed over
HashedBy(k) == k.key.base64.digits.hex.hmac_sha256.message

\* C18: generate_virtual_key is a function of (parent key, restrictions):
\* calls with equal inputs return equal keys, the encoding puts userToken
\* before validUntil and leaves out absent fields, and the parent key is not
\* changed by a call.
C18_Deterministic ==
    /\ [](\A i, j \in 1..Len(derivations) :
            derivations[i].restrictions = derivations[j].restrictions
                => derivations[i].virtual_key = derivations[j].virtual_key)
    /\ [](\A i \in 1..Len(derivations) :
            LET r == derivations[i].restrictions IN
            ExpectedEncoding(r) # "" =>
                PayloadOf(derivations[i].virtual_key) = ExpectedEncoding(r))
    /\ [][parent_key' = parent_key]_vars

C18_Witness ==
    /\ Len(derivations) = 2
    /\ derivations[1].restrictions = derivations[2].restrictions
    /\ derivations[1].virtual_key = derivations[2].virtual_key
    /\ PayloadOf(derivations[2].virtual_key) = "userToken=a+b&validUntil=1700000000"

\* C19: the key is base64(hex(HMAC-SHA256(parent key, P)) ++ P) with the
\* appended P the very string that was hashed; for empty restrictions P is
\* "userToken=" in both places; P is never empty.
C19_SignedPayloadAppended ==
    \A i \in 1..Len(derivations) :
        LET k == derivations[i].virtual_key
            r == derivations[i].restrictions
            P == PayloadOf(k)
        IN
        /\ k = [key |-> [base64 |->
                    [digits |-> [hex |-> [hmac_sha256 |->
                                    [key |-> parent_key.key, message |-> P]]],
                     tail |-> P]]]
        /\ HashedBy(k) = P
        /\ P # ""
        /\ (~r.user_token.some /\ ~r.valid_until.some) => P = "userToken="

C19_Witness ==
    /\ Len(derivations) >= 1
    /\ parent_key.key = "Example Key"
    /\ derivations[1].restrictions =
        [user_token |-> [some |-> FALSE], valid_until |-> [some |-> FALSE]]
    /\ PayloadOf(derivations[1].virtual_key) = "userToken="
    /\ HashedBy(derivations[1].virtual_key) = "userToken="

----------------------------------------------------------------------------
(* Properties of the partial update request *)

\* C20: the create-if-missing parameter sent with a partial update is the
\* caller's PartialUpdateQuery value: the default is true, every request of a
\* call made with create_if_not_exists = v carries createIfNotExists=v (so
\* false is delivered as false), and the requests for true and false differ.
C20_CreateIfMissingDelivered ==
    /\ PartialUpdateQueryDefault.create_if_not_exists = TRUE
    /\ op = "partially_update_object" =>
        \A j \in 1..Len(sent_query) :
            sent_query[j] = "createIfNotExists=" \o BoolDisplay(query.create_if_not_exists)
    /\ SerializePartialUpdateQuery([create_if_not_exists |-> TRUE])
            # SerializePartialUpdateQuery([create_if_not_exists |-> FALSE])

----------------------------------------------------------------------------
(* Properties of the dispatch result *)

\* The urls of the primary host and of every backup host for the route.
AllHostUrls ==
    {Url(application_id, n, route) : n \in {0} \cup SeqToSet(HOST_FALLBACK_LIST)}

\* C21: what a dispatch returns is the value of a successful attempt, the
\* error of a failed attempt, or Timeout; Timeout is returned only after the
\* primary and each backup have been attempted once, four attempts in all,
\* every one of them Ok(None). Nothing is returned before the dispatch ends.
C21_ResultKinds ==
    /\ pc = "done" =>
        \/ \E k \in 1..Len(outcomes) :
            /\ IsSuccess(outcomes[k])
            /\ result = [tag |-> "Ok", val |-> outcomes[k].val]
        \/ \E k \in 1..Len(outcomes) :
            /\ IsFatal(outcomes[k])
            /\ result = outcomes[k]
        \/ result = TimeoutResult
    /\ pc # "done" => result = [tag |-> "None"]
    /\ result = TimeoutResult =>
        /\ Len(outcomes) = 4
        /\ AllRetryable(4)
        /\ Len(attempted) = 4
        /\ SeqToSet(attempted) = AllHostUrls
        /\ Cardinality(AllHostUrls) = 4

C21_Witness ==
    /\ pc = "done"
    /\ result = TimeoutResult
    /\ Len(outcomes) = 4
    /\ AllRetryable(4)
    /\ fallback_order = <<2, 1, 3>>
    /\ op = "task_status"
    /\ resp.tag = "Ok" /\ resp.status = 503

----------------------------------------------------------------------------
(* Properties of the signed payload across restriction sets *)

\* VirtualKeyRestrictions::default(): no field set
EmptyRestrictions ==
    [user_token |-> [some |-> FALSE], valid_until |-> [some |-> FALSE]]

\* user_token = Some("") and no expiry
EmptyTokenRestrictions ==
    [user_token |-> [some |-> TRUE, val |-> <<>>], valid_until |-> [some |-> FALSE]]

\* C22: the restrictions with user_token = Some("") and no expiry derive the
\* same key as the empty restrictions, both signing the payload "userToken=";
\* any other two restriction sets whose serialized forms differ sign
\* different payloads and derive different keys.
C22_PayloadCollision ==
    \A i, j \in 1..Len(derivations) :
        LET ri == derivations[i].restrictions
            rj == derivations[j].restrictions
            ki == derivations[i].virtual_key
            kj == derivations[j].virtual_key
        IN
        /\ (ri = EmptyRestrictions /\ rj = EmptyTokenRestrictions) =>
            /\ ki = kj
            /\ HashedBy(ki) = "userToken=" /\ HashedBy(kj) = "userToken="
            /\ PayloadOf(ki) = "userToken=" /\ PayloadOf(kj) = "userToken="
            /\ SerializeRestrictions(ri) # SerializeRestrictions(rj)
        /\ (/\ SerializeRestrictions(ri) # SerializeRestrictions(rj)
            /\ {ri, rj} # {EmptyRestrictions, EmptyTokenRestrictions}) =>
            /\ HashedBy(ki) # HashedBy(kj)
            /\ PayloadOf(ki) # PayloadOf(kj)
            /\ ki # kj

C22_Witness ==
    /\ Len(derivations) = 2
    /\ derivations[1].restrictions = EmptyRestrictions
    /\ derivations[2].restrictions = EmptyTokenRestrictions
    /\ derivations[1].virtual_key = derivations[2].virtual_key
    /\ HashedBy(derivations[2].virtual_key) = "userToken="

====
